---------------------------- MODULE Spec2Model ----------------------------
(***************************************************************************)
(* RTanksBot (src/bot.py): the three slash-command handlers, the scraper   *)
(* facade they call, the website probe and the shutdown sequence.          *)
(*                                                                         *)
(* The handlers are asyncio coroutines.  Each action below is the code a   *)
(* coroutine runs between two suspension points (awaits), so the          *)
(* interleavings of the model are the interleavings the event loop allows. *)
(***************************************************************************)
EXTENDS Integers, Sequences, FiniteSets, TLC

(***************************************************************************)
(* Bounds of the model.                                                    *)
(***************************************************************************)
MaxNameLen  == 2      \* longest raw username argument (SpecNames)
MaxElapsed  == 1      \* largest time.time() - start_time, in ticks
MaxStat     == 2      \* largest experience / gold_boxes value (SpecEmbed)

\* The command invocations of one behaviour; both may be in flight at once.
Handlers == {1, 2}

(***************************************************************************)
(* Text.  A username is a sequence of characters; str.strip() and          *)
(* str.lower() are computed character by character.                        *)
(***************************************************************************)
Chars      == {" ", "a", "A"}
Whitespace == {" "}

LowerChar(c) == IF c = "A" THEN "a" ELSE c

Lower(s) == [i \in 1..Len(s) |-> LowerChar(s[i])]

RECURSIVE LStrip(_)
LStrip(s) == IF Len(s) > 0 /\ s[1] \in Whitespace THEN LStrip(Tail(s)) ELSE s

RECURSIVE RStrip(_)
RStrip(s) ==
    IF Len(s) > 0 /\ s[Len(s)] \in Whitespace
    THEN RStrip(SubSeq(s, 1, Len(s) - 1))
    ELSE s

Strip(s) == RStrip(LStrip(s))

SeqsUpTo(n) == UNION {[1..k -> Chars] : k \in 0..n}

RawNames == SeqsUpTo(MaxNameLen)

\* The arguments the concurrent specification draws from: two spellings of
\* one player (case and surrounding blanks differ) and a second player.
PoolNames == {<<"a">>, <<"A", " ">>, <<"a", "a">>}

(***************************************************************************)
(* Lookup results.  get_player_data yields a record, None, or (an          *)
(* unexpected fault) raises.                                               *)
(***************************************************************************)
Unset    == [tag |-> "unset"]
NoneRes  == [tag |-> "none"]
RaiseRes == [tag |-> "raise"]
Rec(r)   == [tag |-> "record", rec |-> r]

IsRecord(d) == d.tag = "record"

\* Python truthiness of a lookup result: None is falsy; a record (a non-empty
\* dict) and an exception object are truthy.
Truthy(d) == d.tag \in {"record", "raise"}

Get(r, key, default) == IF key \in DOMAIN r THEN r[key] ELSE default

\* kd_ratio display strings: a ratio formatted to two decimals, or the text of
\* a float rounded to two decimals.
Kd000  == <<"0", ".", "0", "0">>
Kd20   == <<"2", ".", "0">>
Kd200  == <<"2", ".", "0", "0">>
Kd950  == <<"9", ".", "5", "0">>
Kd1000 == <<"1", "0", ".", "0", "0">>
KDTexts == {Kd000, Kd20, Kd200, Kd950, Kd1000}

FullRecord(name, exp, kd, gold) ==
    [username |-> name, rank |-> "Sergeant", experience |-> exp,
     kills |-> 0, deaths |-> 0, kd_ratio |-> kd, premium |-> FALSE,
     gold_boxes |-> gold, group |-> "", is_online |-> FALSE,
     equipment |-> [turrets |-> <<>>, hulls |-> <<>>]]

Without(r, key) == [k \in (DOMAIN r) \ {key} |-> r[k]]

\* The profile the site holds for a (case-folded) username.
SiteProfile(key) ==
    FullRecord(key, Len(key), IF Len(key) = 1 THEN Kd1000 ELSE Kd950,
               IF Len(key) = 1 THEN 1 ELSE 0)

\* The records a fetch may yield: the complete profile, or one whose rank
\* could not be read.
SiteRecords(key) == {SiteProfile(key), Without(SiteProfile(key), "rank")}


(***************************************************************************)
(* compare_command_handler, lines 121-124: both names are stripped and     *)
(* then compared after lower-casing.                                       *)
(***************************************************************************)
IsSelfComparisonCaseSensitive(p1, p2) == Strip(p1) = Strip(p2)

IsSelfComparison(p1, p2) == Lower(Strip(p1)) = Lower(Strip(p2))

(***************************************************************************)
(* float(kd_ratio), lines 416-417.  The value is kept exactly, in          *)
(* hundredths: the display strings carry at most two decimals.             *)
(***************************************************************************)
Digits == <<"0", "1", "2", "3", "4", "5", "6", "7", "8", "9">>

DigitVal(c) == (CHOOSE i \in 1..10 : Digits[i] = c) - 1

RECURSIVE DigitsToNat(_)
DigitsToNat(s) ==
    IF Len(s) = 0 THEN 0
    ELSE DigitsToNat(SubSeq(s, 1, Len(s) - 1)) * 10 + DigitVal(s[Len(s)])

DotPos(s) ==
    IF \E i \in 1..Len(s) : s[i] = "."
    THEN CHOOSE i \in 1..Len(s) : s[i] = "." /\ \A j \in 1..(i - 1) : s[j] # "."
    ELSE Len(s) + 1

ParseFloat(s) ==
    LET d    == DotPos(s)
        ip   == SubSeq(s, 1, d - 1)
        fp   == SubSeq(s, d + 1, Len(s))
        frac == IF Len(fp) = 0 THEN 0
                ELSE IF Len(fp) = 1 THEN DigitsToNat(fp) * 10
                ELSE DigitsToNat(SubSeq(fp, 1, 2))
    IN  DigitsToNat(ip) * 100 + frac

\* Python's order on str, for the characters of a kd_ratio string.
CharOrd(c) == IF c = "." THEN 0 ELSE DigitVal(c) + 1

RECURSIVE TextGreater(_, _)
TextGreater(a, b) ==
    IF Len(a) = 0 THEN FALSE
    ELSE IF Len(b) = 0 THEN TRUE
    ELSE IF a[1] # b[1] THEN CharOrd(a[1]) > CharOrd(b[1])
    ELSE TextGreater(Tail(a), Tail(b))

KdGreaterAsText(a, b) == TextGreater(a, b)

\* p1_kd > p2_kd on the floats of lines 416-417.
KdGreater(a, b) == ParseFloat(a) > ParseFloat(b)

(***************************************************************************)
(* _create_comparison_embed, lines 383-489.  One field per metric: the     *)
(* winner is written first (in bold), the loser second; a tie names no     *)
(* player.  An exception stands for the KeyError / TypeError of a missing  *)
(* key or of an argument that is no record.                                *)
(***************************************************************************)
Field(gt12, gt21, n1, n2) ==
    IF gt12 THEN [result |-> "Win", winner |-> n1, loser |-> n2]
    ELSE IF gt21 THEN [result |-> "Win", winner |-> n2, loser |-> n1]
    ELSE [result |-> "Tie", winner |-> <<>>, loser |-> <<>>]

ComparisonKeys == {"username", "rank", "kd_ratio"}

CreateComparisonEmbed(d1, d2) ==
    IF ~(IsRecord(d1) /\ IsRecord(d2)) THEN [tag |-> "raise"]
    ELSE IF ~(ComparisonKeys \subseteq DOMAIN d1.rec /\ ComparisonKeys \subseteq DOMAIN d2.rec)
    THEN [tag |-> "raise"]
    ELSE
      LET r1 == d1.rec
          r2 == d2.rec
          n1 == r1["username"]
          n2 == r2["username"]
          e1 == Get(r1, "experience", 0)
          e2 == Get(r2, "experience", 0)
          g1 == Get(r1, "gold_boxes", 0)
          g2 == Get(r2, "gold_boxes", 0)
          k1 == r1["kd_ratio"]
          k2 == r2["kd_ratio"]
      IN  [tag  |-> "embed",
           p1   |-> n1,
           p2   |-> n2,
           exp  |-> Field(e1 > e2, e2 > e1, n1, n2),
           kd   |-> Field(KdGreater(k1, k2), KdGreater(k2, k1), n1, n2),
           gold |-> Field(g1 > g2, g2 > g1, n1, n2)]

(***************************************************************************)
(* _create_player_embed, lines 286-381: every key below is read with [].   *)
(***************************************************************************)
PlayerKeys ==
    {"is_online", "username", "rank", "experience", "premium", "kills",
     "deaths", "kd_ratio", "gold_boxes", "group", "equipment"}

CreatePlayerEmbed(d) ==
    IF ~IsRecord(d) THEN [tag |-> "raise"]
    ELSE IF ~(PlayerKeys \subseteq DOMAIN d.rec) THEN [tag |-> "raise"]
    ELSE [tag |-> "embed", title |-> d.rec["username"], online |-> d.rec["is_online"]]

(***************************************************************************)
(* _check_website_status, lines 491-504.  The request ends with a response *)
(* (any status) or with an exception (the 10 s total timeout, a connection *)
(* failure).                                                               *)
(***************************************************************************)
HttpStatuses == {200, 204, 404, 503}

WebOutcomes ==
    {[tag |-> "response", status |-> s, exc |-> "none"] : s \in HttpStatuses}
    \cup {[tag |-> "exception", status |-> 0, exc |-> e] : e \in {"Timeout", "ConnectionFailed"}}

CheckWebsiteStatusAny2xx(o) ==
    IF o.tag = "response"
    THEN IF o.status \div 100 = 2
         THEN [tag |-> "return", light |-> "Online", code |-> 0]
         ELSE [tag |-> "return", light |-> "Partial", code |-> o.status]
    ELSE [tag |-> "return", light |-> "Offline", code |-> 0]

CheckWebsiteStatus(o) ==
    IF o.tag = "response"
    THEN IF o.status = 200
         THEN [tag |-> "return", light |-> "Online", code |-> 0]
         ELSE [tag |-> "return", light |-> "Partial", code |-> o.status]
    ELSE [tag |-> "return", light |-> "Offline", code |-> 0]


(***************************************************************************)
(* The scraper facade (scraper.py is not part of the sources; modelled     *)
(* from the specification, sections 4.4 and 4.5).  A fetch is keyed by the *)
(* trimmed, case-folded username; a lookup of a key with a fetch in flight *)
(* joins that fetch; an empty username yields None without any fetch.      *)
(***************************************************************************)
Fold(name) == Lower(Strip(name))

ValidName(name) == Len(Strip(name)) > 0

IdleTask == [st |-> "none", fetch |-> 0, res |-> Unset]

InFlight(fs, key) == {f \in 1..Len(fs) : fs[f].key = key /\ fs[f].st = "inflight"}

NewFetch(fs, key) ==
    [fetches |-> Append(fs, [key |-> key, st |-> "inflight", res |-> Unset]),
     task    |-> [st |-> "waiting", fetch |-> Len(fs) + 1, res |-> Unset]]

GetPlayerDataNoJoin(fs, name) ==
    IF ~ValidName(name)
    THEN [fetches |-> fs, task |-> [st |-> "done", fetch |-> 0, res |-> NoneRes]]
    ELSE NewFetch(fs, Fold(name))

GetPlayerData(fs, name) ==
    IF ~ValidName(name)
    THEN [fetches |-> fs, task |-> [st |-> "done", fetch |-> 0, res |-> NoneRes]]
    ELSE IF InFlight(fs, Fold(name)) # {}
    THEN [fetches |-> fs,
          task    |-> [st |-> "waiting",
                       fetch |-> CHOOSE f \in InFlight(fs, Fold(name)) : TRUE,
                       res |-> Unset]]
    ELSE NewFetch(fs, Fold(name))

FetchOutcomes(key) == {NoneRes, RaiseRes} \cup {Rec(r) : r \in SiteRecords(key)}

PairFetchOutcomes(key) == {NoneRes, RaiseRes, Rec(SiteProfile(key))}

(***************************************************************************)
(* asyncio.gather(player1_task, player2_task, return_exceptions=True),     *)
(* lines 137-140: both coroutines are scheduled as tasks by the one call.  *)
(***************************************************************************)
GatherOneAfterTheOther(fs, n1, n2) ==
    LET a == GetPlayerData(fs, n1)
    IN  [fetches |-> a.fetches, tasks |-> <<a.task, IdleTask>>]

Gather(fs, n1, n2) ==
    LET a == GetPlayerData(fs, n1)
        b == GetPlayerData(a.fetches, n2)
    IN  [fetches |-> b.fetches, tasks |-> <<a.task, b.task>>]

\* Lines 143-148: a result that is an exception becomes None.
ExcKept(r) == r

ExcToNone(r) == IF r.tag = "raise" THEN NoneRes ELSE r

(***************************************************************************)
(* The followup messages.                                                  *)
(***************************************************************************)
Text == [tag |-> "text"]

Msg(k, named, body) == [kind |-> k, named |-> named, body |-> body]

NoMsg == Msg("none", {}, Text)

ErrorMsg == Msg("Error", {}, Text)

\* player_command_handler, lines 76-90, from the awaited lookup result on.
PlayerReply(r, username) ==
    IF r.tag = "raise" THEN [raised |-> "lookup", msg |-> NoMsg]
    ELSE IF ~Truthy(r)
    THEN [raised |-> "none", msg |-> Msg("PlayerNotFound", {username}, Text)]
    ELSE LET e == CreatePlayerEmbed(r)
         IN  IF e.tag = "raise" THEN [raised |-> "embed", msg |-> NoMsg]
             ELSE [raised |-> "none", msg |-> Msg("PlayerEmbed", {}, e)]

CompareReplySwapped(d1, d2, n1, n2) ==
    IF ~Truthy(d1) /\ ~Truthy(d2)
    THEN [raised |-> "none", msg |-> Msg("PlayersNotFound", {n1, n2}, Text)]
    ELSE IF ~Truthy(d1)
    THEN [raised |-> "none", msg |-> Msg("PlayerNotFound", {n2}, Text)]
    ELSE IF ~Truthy(d2)
    THEN [raised |-> "none", msg |-> Msg("PlayerNotFound", {n1}, Text)]
    ELSE LET e == CreateComparisonEmbed(d1, d2)
         IN  IF e.tag = "raise" THEN [raised |-> "embed", msg |-> NoMsg]
             ELSE [raised |-> "none", msg |-> Msg("ComparisonEmbed", {}, e)]

\* compare_command_handler, lines 150-181.
CompareReply(d1, d2, n1, n2) ==
    IF ~Truthy(d1) /\ ~Truthy(d2)
    THEN [raised |-> "none", msg |-> Msg("PlayersNotFound", {n1, n2}, Text)]
    ELSE IF ~Truthy(d1)
    THEN [raised |-> "none", msg |-> Msg("PlayerNotFound", {n1}, Text)]
    ELSE IF ~Truthy(d2)
    THEN [raised |-> "none", msg |-> Msg("PlayerNotFound", {n2}, Text)]
    ELSE LET e == CreateComparisonEmbed(d1, d2)
         IN  IF e.tag = "raise" THEN [raised |-> "embed", msg |-> NoMsg]
             ELSE [raised |-> "none", msg |-> Msg("ComparisonEmbed", {}, e)]

\* The statistics a handler updates once its followup send has returned:
\* lines 85, 93-95, 106 (player) and 158, 167, 176, 184-186, 197 (compare).
StatsAfterSendUncountedError(k, inExcept) ==
    IF inExcept THEN [s |-> 0, f |-> 0, timed |-> FALSE]
    ELSE IF k = "PlayerNotFound" THEN [s |-> 0, f |-> 1, timed |-> FALSE]
    ELSE IF k = "PlayersNotFound" THEN [s |-> 0, f |-> 2, timed |-> FALSE]
    ELSE IF k = "PlayerEmbed" THEN [s |-> 1, f |-> 0, timed |-> TRUE]
    ELSE IF k = "ComparisonEmbed" THEN [s |-> 2, f |-> 0, timed |-> TRUE]
    ELSE [s |-> 0, f |-> 0, timed |-> FALSE]

StatsAfterSendCountingFound(k, inExcept) ==
    IF inExcept THEN [s |-> 0, f |-> 1, timed |-> FALSE]
    ELSE IF k = "PlayerNotFound" THEN [s |-> 1, f |-> 1, timed |-> TRUE]
    ELSE IF k = "PlayersNotFound" THEN [s |-> 0, f |-> 2, timed |-> FALSE]
    ELSE IF k = "PlayerEmbed" THEN [s |-> 1, f |-> 0, timed |-> TRUE]
    ELSE IF k = "ComparisonEmbed" THEN [s |-> 2, f |-> 0, timed |-> TRUE]
    ELSE [s |-> 0, f |-> 0, timed |-> FALSE]

StatsAfterSend(k, inExcept) ==
    IF inExcept THEN [s |-> 0, f |-> 1, timed |-> FALSE]
    ELSE IF k = "PlayerNotFound" THEN [s |-> 0, f |-> 1, timed |-> FALSE]
    ELSE IF k = "PlayersNotFound" THEN [s |-> 0, f |-> 2, timed |-> FALSE]
    ELSE IF k = "PlayerEmbed" THEN [s |-> 1, f |-> 0, timed |-> TRUE]
    ELSE IF k = "ComparisonEmbed" THEN [s |-> 2, f |-> 0, timed |-> TRUE]
    ELSE [s |-> 0, f |-> 0, timed |-> FALSE]

\* Where a handler goes when followup.send raises: inside the try block the
\* except clause takes over (lines 97, 188); inside the except clause, and in
\* botstats_command_handler (no try), the exception leaves the handler.
AfterSendFailureSwallowed(k, inExcept) ==
    IF k = "botstats" \/ inExcept THEN "escaped" ELSE "done"

AfterSendFailure(k, inExcept) ==
    IF k = "botstats" \/ inExcept THEN "escaped" ELSE "except"


(***************************************************************************)
(* State.                                                                  *)
(***************************************************************************)
VARIABLES
    pc,          \* per invocation: idle, defer, lookup, gather, web, send, done, escaped
    kind,        \* per invocation: none, player, compare, botstats
    arg,         \* per invocation: the username arguments as passed
    task,        \* per invocation: its one or two get_player_data calls
    order,       \* per invocation: the order in which those calls finished
    data,        \* per invocation: player_data / player1_data, player2_data
    msg,         \* per invocation: the embed of the followup.send being awaited
    handling,    \* per invocation: inside the except clause
    raised,      \* per invocation: what raised the exception the except clause caught
    sends,       \* per invocation: the followup sends so far, with their outcome
    esc,         \* per invocation: the exception that left the handler, if any
    commands_processed,
    scraping_successes,
    scraping_failures,
    total_scraping_time,
    dS, dF, dT,  \* per invocation: what it added to the three scraping statistics
    fetches,     \* the scraper's outbound fetches, in the order they were started
    web,         \* per invocation: the website probe of /botstats
    closePc,     \* RTanksBot.close(): open, scraper_closing, super_closing, closed
    scraperCloseCalls,
    scraperOpen, \* the scraper still holds its connection resource
    probe        \* SpecEmbed: two records and the comparison embeds built of them

hvars == <<pc, kind, arg, task, order, data, msg, handling, raised, sends, esc>>
cvars == <<commands_processed, scraping_successes, scraping_failures,
           total_scraping_time, dS, dF, dT>>
xvars == <<closePc, scraperCloseCalls, scraperOpen>>
vars  == <<hvars, cvars, fetches, web, xvars, probe>>

NoProbe == [d1 |-> Unset, d2 |-> Unset, out |-> Unset, swapped |-> Unset]

NoWeb == [st |-> "none", out |-> Unset, result |-> Unset, total_scrapes |-> 0]

\* RTanksBot.__init__, lines 34-42.
InitBot ==
    /\ pc = [h \in Handlers |-> "idle"]
    /\ kind = [h \in Handlers |-> "none"]
    /\ arg = [h \in Handlers |-> <<>>]
    /\ task = [h \in Handlers |-> <<IdleTask, IdleTask>>]
    /\ order = [h \in Handlers |-> <<>>]
    /\ data = [h \in Handlers |-> <<Unset, Unset>>]
    /\ msg = [h \in Handlers |-> NoMsg]
    /\ handling = [h \in Handlers |-> FALSE]
    /\ raised = [h \in Handlers |-> "none"]
    /\ sends = [h \in Handlers |-> <<>>]
    /\ esc = [h \in Handlers |-> "none"]
    /\ commands_processed = 0
    /\ scraping_successes = 0
    /\ scraping_failures = 0
    /\ total_scraping_time = 0
    /\ dS = [h \in Handlers |-> 0]
    /\ dF = [h \in Handlers |-> 0]
    /\ dT = [h \in Handlers |-> 0]
    /\ fetches = <<>>
    /\ web = [h \in Handlers |-> NoWeb]
    /\ closePc = "open"
    /\ scraperCloseCalls = 0
    /\ scraperOpen = TRUE

Init == InitBot /\ probe = NoProbe

(***************************************************************************)
(* A slash command arrives: the handler coroutine starts and awaits        *)
(* interaction.response.defer() (lines 69, 114, 201).                      *)
(***************************************************************************)
Invocations(pool) ==
    {[kind |-> "player", arg |-> <<u>>] : u \in pool}
    \cup {[kind |-> "compare", arg |-> <<p, q>>] : p \in pool, q \in pool}

InvokeAs(h, c) ==
    /\ pc[h] = "idle"
    /\ closePc = "open"
    /\ \A g \in Handlers : g < h => pc[g] # "idle"
    /\ pc' = [pc EXCEPT ![h] = "defer"]
    /\ kind' = [kind EXCEPT ![h] = c.kind]
    /\ arg' = [arg EXCEPT ![h] = c.arg]
    /\ UNCHANGED <<task, order, data, msg, handling, raised, sends, esc>>
    /\ UNCHANGED <<cvars, fetches, web, xvars, probe>>

Invoke(h) ==
    \E c \in Invocations(PoolNames) \cup {[kind |-> "botstats", arg |-> <<>>]} :
        InvokeAs(h, c)

\* defer() raises (the interaction is unknown or has expired): the exception
\* leaves the handler, which has no try block around line 69 / 114 / 201.
DeferFail(h) ==
    /\ pc[h] = "defer"
    /\ pc' = [pc EXCEPT ![h] = "escaped"]
    /\ esc' = [esc EXCEPT ![h] = "defer"]
    /\ UNCHANGED <<kind, arg, task, order, data, msg, handling, raised, sends>>
    /\ UNCHANGED <<cvars, fetches, web, xvars, probe>>

\* player_command_handler, lines 71-76, up to the await of get_player_data.
BeginPlayer(h) ==
    /\ pc[h] = "defer" /\ kind[h] = "player"
    /\ commands_processed' = commands_processed + 1
    /\ LET g == GetPlayerData(fetches, Strip(arg[h][1]))
       IN  /\ fetches' = g.fetches
           /\ task' = [task EXCEPT ![h] = <<g.task, IdleTask>>]
           /\ order' = [order EXCEPT ![h] = IF g.task.st = "done" THEN <<1>> ELSE <<>>]
    /\ pc' = [pc EXCEPT ![h] = "lookup"]
    /\ UNCHANGED <<kind, arg, data, msg, handling, raised, sends, esc>>
    /\ UNCHANGED <<scraping_successes, scraping_failures, total_scraping_time, dS, dF, dT>>
    /\ UNCHANGED <<web, xvars, probe>>

\* compare_command_handler, lines 116-140, up to the send of the
\* self-comparison refusal or the await of gather.
BeginCompare(h) ==
    /\ pc[h] = "defer" /\ kind[h] = "compare"
    /\ commands_processed' = commands_processed + 1
    /\ IF IsSelfComparison(arg[h][1], arg[h][2])
       THEN /\ msg' = [msg EXCEPT ![h] = Msg("InvalidComparison", {}, Text)]
            /\ pc' = [pc EXCEPT ![h] = "send"]
            /\ UNCHANGED <<fetches, task, order>>
       ELSE /\ LET g == Gather(fetches, Strip(arg[h][1]), Strip(arg[h][2]))
               IN  /\ fetches' = g.fetches
                   /\ task' = [task EXCEPT ![h] = g.tasks]
                   /\ order' = [order EXCEPT ![h] =
                                   (IF g.tasks[1].st = "done" THEN <<1>> ELSE <<>>)
                                   \o (IF g.tasks[2].st = "done" THEN <<2>> ELSE <<>>)]
            /\ pc' = [pc EXCEPT ![h] = "gather"]
            /\ UNCHANGED msg
    /\ UNCHANGED <<kind, arg, data, handling, raised, sends, esc>>
    /\ UNCHANGED <<scraping_successes, scraping_failures, total_scraping_time, dS, dF, dT>>
    /\ UNCHANGED <<web, xvars, probe>>

\* botstats_command_handler, lines 203-275, up to the await of
\* _check_website_status; total_scrapes is read at line 223.
BeginBotstats(h) ==
    /\ pc[h] = "defer" /\ kind[h] = "botstats"
    /\ commands_processed' = commands_processed + 1
    /\ web' = [web EXCEPT ![h] = [st |-> "requesting", out |-> Unset, result |-> Unset,
                                  total_scrapes |-> scraping_successes + scraping_failures]]
    /\ pc' = [pc EXCEPT ![h] = "web"]
    /\ UNCHANGED <<kind, arg, task, order, data, msg, handling, raised, sends, esc>>
    /\ UNCHANGED <<scraping_successes, scraping_failures, total_scraping_time, dS, dF, dT>>
    /\ UNCHANGED <<fetches, xvars, probe>>

\* An outbound fetch of the scraper ends: every lookup that waits for it is
\* resumed with its outcome.
FetchCompleteWith(f, o) ==
    /\ f \in 1..Len(fetches)
    /\ fetches[f].st = "inflight"
    /\  LET woken(h) == {i \in 1..2 : task[h][i].st = "waiting" /\ task[h][i].fetch = f}
        IN  /\ fetches' = [fetches EXCEPT ![f] = [key |-> fetches[f].key, st |-> "done", res |-> o]]
            /\ task' = [h \in Handlers |->
                          [i \in 1..2 |-> IF i \in woken(h)
                                          THEN [st |-> "done", fetch |-> f, res |-> o]
                                          ELSE task[h][i]]]
            /\ order' = [h \in Handlers |->
                           order[h] \o (IF 1 \in woken(h) THEN <<1>> ELSE <<>>)
                                    \o (IF 2 \in woken(h) THEN <<2>> ELSE <<>>)]
    /\ UNCHANGED <<pc, kind, arg, data, msg, handling, raised, sends, esc>>
    /\ UNCHANGED <<cvars, web, xvars, probe>>

FetchComplete == 
    \E f \in 1..Len(fetches) : \E o \in FetchOutcomes(fetches[f].key) :
        FetchCompleteWith(f, o)

\* The handler leaves its try block for the except clause (lines 97-105,
\* 188-196) and awaits the send of the error embed.
EnterExcept(h, why) ==
    /\ handling' = [handling EXCEPT ![h] = TRUE]
    /\ raised' = [raised EXCEPT ![h] = why]
    /\ msg' = [msg EXCEPT ![h] = ErrorMsg]
    /\ pc' = [pc EXCEPT ![h] = "send"]

\* player_command_handler resumes at line 76 with the lookup's outcome.
ResumePlayer(h) ==
    /\ pc[h] = "lookup" /\ task[h][1].st = "done"
    /\ LET r == task[h][1].res
           a == PlayerReply(r, arg[h][1])
       IN  /\ data' = [data EXCEPT ![h][1] = IF r.tag = "raise" THEN Unset ELSE r]
           /\ IF a.raised # "none"
              THEN EnterExcept(h, a.raised)
              ELSE /\ msg' = [msg EXCEPT ![h] = a.msg]
                   /\ pc' = [pc EXCEPT ![h] = "send"]
                   /\ UNCHANGED <<handling, raised>>
    /\ UNCHANGED <<kind, arg, task, order, sends, esc>>
    /\ UNCHANGED <<cvars, fetches, web, xvars, probe>>

\* compare_command_handler resumes at line 140 once both lookups are done.
ResumeCompare(h) ==
    /\ pc[h] = "gather"
    /\ task[h][1].st = "done" /\ task[h][2].st = "done"
    /\ LET d1 == ExcToNone(task[h][1].res)
           d2 == ExcToNone(task[h][2].res)
           a  == CompareReply(d1, d2, Strip(arg[h][1]), Strip(arg[h][2]))
       IN  /\ data' = [data EXCEPT ![h] = <<d1, d2>>]
           /\ IF a.raised # "none"
              THEN EnterExcept(h, a.raised)
              ELSE /\ msg' = [msg EXCEPT ![h] = a.msg]
                   /\ pc' = [pc EXCEPT ![h] = "send"]
                   /\ UNCHANGED <<handling, raised>>
    /\ UNCHANGED <<kind, arg, task, order, sends, esc>>
    /\ UNCHANGED <<cvars, fetches, web, xvars, probe>>

\* botstats_command_handler resumes at line 275 with the website status.
WebDone(h) ==
    /\ pc[h] = "web"
    /\ \E o \in WebOutcomes :
        LET r == CheckWebsiteStatus(o)
        IN  /\ web' = [web EXCEPT ![h] = [st |-> "returned", out |-> o, result |-> r,
                                          total_scrapes |-> web[h].total_scrapes]]
            /\ IF r.tag = "return"
               THEN /\ msg' = [msg EXCEPT ![h] = Msg("BotStats", {}, r)]
                    /\ pc' = [pc EXCEPT ![h] = "send"]
                    /\ UNCHANGED esc
               ELSE /\ pc' = [pc EXCEPT ![h] = "escaped"]
                    /\ esc' = [esc EXCEPT ![h] = "web"]
                    /\ UNCHANGED msg
    /\ UNCHANGED <<kind, arg, task, order, data, handling, raised, sends>>
    /\ UNCHANGED <<cvars, fetches, xvars, probe>>

\* interaction.followup.send returns: the statistics are updated and the
\* handler returns.
SendOk(h) ==
    /\ pc[h] = "send"
    /\ sends' = [sends EXCEPT ![h] = Append(@, [msg |-> msg[h], ok |-> TRUE])]
    /\ LET st == StatsAfterSend(msg[h].kind, handling[h])
       IN  \E e \in (IF st.timed THEN 1..MaxElapsed ELSE {0}) :
             /\ scraping_successes' = scraping_successes + st.s
             /\ scraping_failures' = scraping_failures + st.f
             /\ total_scraping_time' = total_scraping_time + e
             /\ dS' = [dS EXCEPT ![h] = @ + st.s]
             /\ dF' = [dF EXCEPT ![h] = @ + st.f]
             /\ dT' = [dT EXCEPT ![h] = @ + e]
    /\ pc' = [pc EXCEPT ![h] = "done"]
    /\ UNCHANGED <<kind, arg, task, order, data, msg, handling, raised, esc>>
    /\ UNCHANGED <<commands_processed, fetches, web, xvars, probe>>

\* interaction.followup.send raises.
SendFail(h) ==
    /\ pc[h] = "send"
    /\ sends' = [sends EXCEPT ![h] = Append(@, [msg |-> msg[h], ok |-> FALSE])]
    /\ LET to == AfterSendFailure(kind[h], handling[h])
       IN  IF to = "except"
           THEN /\ EnterExcept(h, "send")
                /\ UNCHANGED esc
           ELSE /\ pc' = [pc EXCEPT ![h] = to]
                /\ esc' = [esc EXCEPT ![h] = IF to = "escaped" THEN "send" ELSE "none"]
                /\ UNCHANGED <<msg, handling, raised>>
    /\ UNCHANGED <<kind, arg, task, order, data>>
    /\ UNCHANGED <<cvars, fetches, web, xvars, probe>>

(***************************************************************************)
(* RTanksBot.close(), lines 510-513.                                       *)
(***************************************************************************)
CloseStartSkippingScraper ==
    /\ closePc = "open"
    /\ closePc' = "super_closing"
    /\ UNCHANGED <<scraperCloseCalls, scraperOpen>>

\* close() is called: it awaits self.scraper.close() (line 512).
CloseStart ==
    /\ closePc = "open"
    /\ closePc' = "scraper_closing"
    /\ scraperCloseCalls' = scraperCloseCalls + 1
    /\ UNCHANGED scraperOpen

CloseInvoke == CloseStart /\ UNCHANGED <<hvars, cvars, fetches, web, probe>>

\* The scraper's close (specification, section 4.5) releases the connection
\* resource and returns; close() goes on to await super().close() (line 513).
ScraperCloseDone ==
    /\ closePc = "scraper_closing"
    /\ scraperOpen' = FALSE
    /\ closePc' = "super_closing"
    /\ UNCHANGED <<scraperCloseCalls, hvars, cvars, fetches, web, probe>>

\* super().close() returns: the bot is shut down.
SuperCloseDone ==
    /\ closePc = "super_closing"
    /\ closePc' = "closed"
    /\ UNCHANGED <<scraperCloseCalls, scraperOpen, hvars, cvars, fetches, web, probe>>

\* The steps of a handler that is in flight.
Progress(h) ==
    \/ DeferFail(h)
    \/ BeginPlayer(h)
    \/ BeginCompare(h)
    \/ BeginBotstats(h)
    \/ ResumePlayer(h)
    \/ ResumeCompare(h)
    \/ WebDone(h)
    \/ SendOk(h)
    \/ SendFail(h)

(***************************************************************************)
(* One command invocation, of any of the three commands, and the shutdown  *)
(* of the bot at any moment.  The event loop resumes every coroutine whose *)
(* await has ended, and every network await ends (with a response, an      *)
(* error or its timeout).                                                  *)
(***************************************************************************)
InvokeOne == Invoke(1)

Next ==
    \/ InvokeOne
    \/ \E h \in Handlers : DeferFail(h)
    \/ \E h \in Handlers : BeginPlayer(h)
    \/ \E h \in Handlers : BeginCompare(h)
    \/ \E h \in Handlers : BeginBotstats(h)
    \/ FetchComplete
    \/ \E h \in Handlers : ResumePlayer(h)
    \/ \E h \in Handlers : ResumeCompare(h)
    \/ \E h \in Handlers : WebDone(h)
    \/ \E h \in Handlers : SendOk(h)
    \/ \E h \in Handlers : SendFail(h)
    \/ CloseInvoke
    \/ ScraperCloseDone
    \/ SuperCloseDone

Fairness ==
    /\ \A h \in Handlers : WF_vars(Progress(h))
    /\ WF_vars(FetchComplete)
    /\ WF_vars(ScraperCloseDone)
    /\ WF_vars(SuperCloseDone)

Spec == Init /\ [][Next]_vars /\ Fairness

(***************************************************************************)
(* Two invocations of /player and /compare in flight together.             *)
(***************************************************************************)
PairInvocations ==
    {[kind |-> "player", arg |-> <<u>>] : u \in {<<"a">>, <<"A", " ">>}}
    \cup {[kind |-> "compare", arg |-> a] :
            a \in {<< <<"a">>, <<"a", "a">> >>, << <<"A", " ">>, <<"a", "a">> >>}}

InvokePair(h) == \E c \in PairInvocations : InvokeAs(h, c)

FetchCompletePair ==
    \E f \in 1..Len(fetches) : \E o \in PairFetchOutcomes(fetches[f].key) :
        FetchCompleteWith(f, o)

NextPair ==
    \/ \E h \in Handlers : InvokePair(h)
    \/ \E h \in Handlers : DeferFail(h)
    \/ \E h \in Handlers : BeginPlayer(h)
    \/ \E h \in Handlers : BeginCompare(h)
    \/ FetchCompletePair
    \/ \E h \in Handlers : ResumePlayer(h)
    \/ \E h \in Handlers : ResumeCompare(h)
    \/ \E h \in Handlers : SendOk(h)
    \/ \E h \in Handlers : SendFail(h)

SpecPair == Init /\ [][NextPair]_vars

(***************************************************************************)
(* One /player or /compare invocation with arbitrary username arguments.   *)
(***************************************************************************)
InvokeNames == \E c \in Invocations(RawNames) : InvokeAs(1, c)

NextNames ==
    \/ InvokeNames
    \/ \E h \in Handlers : DeferFail(h)
    \/ \E h \in Handlers : BeginPlayer(h)
    \/ \E h \in Handlers : BeginCompare(h)
    \/ FetchComplete
    \/ \E h \in Handlers : ResumePlayer(h)
    \/ \E h \in Handlers : ResumeCompare(h)
    \/ \E h \in Handlers : SendOk(h)
    \/ \E h \in Handlers : SendFail(h)

SpecNames == Init /\ [][NextNames]_vars

(***************************************************************************)
(* _create_comparison_embed applied to two arbitrary records, in both      *)
(* argument orders.                                                        *)
(***************************************************************************)
WithKey(r, key, v) == [k \in (DOMAIN r) \cup {key} |-> IF k = key THEN v ELSE r[k]]

\* -1 stands for a key the record does not hold.
Opt(r, key, v) == IF v = -1 THEN r ELSE WithKey(r, key, v)

StatRecords ==
    {Opt(Opt([username |-> n, rank |-> "Sergeant", kd_ratio |-> k], "experience", e),
         "gold_boxes", g) :
        n \in {<<"a">>, <<"a", "a">>}, k \in KDTexts,
        e \in -1..MaxStat, g \in -1..MaxStat}

InitEmbed ==
    /\ InitBot
    /\ probe \in {[d1 |-> Rec(r1), d2 |-> Rec(r2), out |-> Unset, swapped |-> Unset] :
                    r1 \in StatRecords, r2 \in StatRecords}

ApplyComparison ==
    /\ probe.out = Unset
    /\ probe' = [probe EXCEPT !.out = CreateComparisonEmbed(probe.d1, probe.d2),
                              !.swapped = CreateComparisonEmbed(probe.d2, probe.d1)]
    /\ UNCHANGED <<hvars, cvars, fetches, web, xvars>>

NextEmbed == ApplyComparison

SpecEmbed == InitEmbed /\ [][NextEmbed]_vars


(***************************************************************************)
(* Properties.                                                             *)
(***************************************************************************)
Deferred(h) == pc[h] \notin {"idle", "defer"} /\ esc[h] # "defer"

\* The embed of the first followup.send the handler has reached.
Reached(h) == sends[h] # <<>> \/ pc[h] = "send"

FirstReply(h) == IF sends[h] # <<>> THEN sends[h][1].msg ELSE msg[h]

Delivered(h) == {i \in 1..Len(sends[h]) : sends[h][i].ok}

NoLookup(h) == task[h] = <<IdleTask, IdleTask>>

\* C1: a /compare whose two names are equal once trimmed and lower-cased
\* (names that differ only in case or in surrounding blanks, two empty names)
\* is answered with 'Invalid Comparison' and issues no get_player_data lookup,
\* so no fetch is ever started.
C1_SelfComparisonRefused ==
    \A h \in Handlers :
        (/\ kind[h] = "compare"
         /\ Deferred(h)
         /\ Lower(Strip(arg[h][1])) = Lower(Strip(arg[h][2])))
        => /\ NoLookup(h)
           /\ fetches = <<>>
           /\ Reached(h)
           /\ FirstReply(h).kind = "InvalidComparison"

C1_Witness ==
    \E h \in Handlers :
        /\ kind[h] = "compare"
        /\ arg[h] = << <<"A">>, <<" ", "a">> >>
        /\ pc[h] = "done"
        /\ NoLookup(h)
        /\ Len(sends[h]) = 1 /\ sends[h][1].ok
        /\ sends[h][1].msg.kind = "InvalidComparison"


Past(h) == pc[h] \in {"send", "done", "escaped"} /\ Deferred(h)

\* Every embed the handler has handed to followup.send so far.
Attempted(h) ==
    {sends[h][i].msg.kind : i \in 1..Len(sends[h])}
    \cup (IF pc[h] = "send" THEN {msg[h].kind} ELSE {})

\* C2: in a /compare of two distinct players both lookups are started by the
\* one gather call, before either result is awaited; the handler goes on only
\* when both have finished (returned or raised); and each result is bound to
\* its own player whichever lookup finished first.
C2_LookupsConcurrent ==
    \A h \in Handlers :
        kind[h] = "compare" =>
            /\ (task[h][1].st = "none") <=> (task[h][2].st = "none")
            /\ pc[h] = "gather" => task[h][1].st # "none" /\ task[h][2].st # "none"
            /\ (Past(h) /\ ~NoLookup(h)) =>
                 \A i \in 1..2 :
                    /\ task[h][i].st = "done"
                    /\ data[h][i] = (IF task[h][i].res.tag = "raise"
                                      THEN NoneRes ELSE task[h][i].res)
                    /\ IsRecord(data[h][i]) =>
                         data[h][i].rec["username"] = Lower(Strip(arg[h][i]))

C2_Witness ==
    \E h \in Handlers :
        /\ kind[h] = "compare" /\ pc[h] = "done"
        /\ order[h] = <<2, 1>>
        /\ IsRecord(data[h][1]) /\ IsRecord(data[h][2])
        /\ data[h][1].rec["username"] = Lower(Strip(arg[h][1]))
        /\ sends[h][1].msg.kind = "ComparisonEmbed" /\ sends[h][1].ok

\* The players whose lookup yielded no record.  In /compare a lookup that
\* raised has been turned into None (lines 143-148) before the check of
\* lines 151-177, so it counts as one that returned no record.
Missing(h) == {i \in 1..2 : task[h][i].st = "done" /\ ~IsRecord(task[h][i].res)}

NotFoundKinds == {"PlayerNotFound", "PlayersNotFound"}

\* C3: a lookup that returns no record is answered with 'Player(s) Not Found'
\* naming exactly the players without a record; no player or comparison embed
\* is sent and scraping_successes is not increased.
C3_NullIsNotFound ==
    /\ \A h \in Handlers :
         (kind[h] = "player" /\ Past(h) /\ task[h][1].res = NoneRes) =>
            /\ FirstReply(h) = Msg("PlayerNotFound", {arg[h][1]}, Text)
            /\ Attempted(h) \cap {"PlayerEmbed", "ComparisonEmbed"} = {}
            /\ dS[h] = 0
    /\ \A h \in Handlers :
         (kind[h] = "compare" /\ Past(h) /\ Missing(h) # {}) =>
            /\ FirstReply(h).kind =
                 (IF Missing(h) = {1, 2} THEN "PlayersNotFound" ELSE "PlayerNotFound")
            /\ FirstReply(h).named = {Strip(arg[h][i]) : i \in Missing(h)}
            /\ Attempted(h) \cap {"PlayerEmbed", "ComparisonEmbed"} = {}
            /\ dS[h] = 0
    /\ scraping_successes = dS[1] + dS[2]

C3_Witness ==
    \E h \in Handlers :
        /\ kind[h] = "compare" /\ pc[h] = "done"
        /\ task[h][1].res = NoneRes /\ IsRecord(task[h][2].res)
        /\ Len(sends[h]) = 1 /\ sends[h][1].ok
        /\ sends[h][1].msg = Msg("PlayerNotFound", {Strip(arg[h][1])}, Text)
        /\ scraping_successes = 0 /\ scraping_failures = 1

Norm(r) == IF r.tag = "raise" THEN NoneRes ELSE r

OkPattern(h) == [i \in 1..Len(sends[h]) |-> sends[h][i].ok]

\* Two finished invocations of the same command with the same arguments whose
\* lookups differ at most in raising where the other returned None.
Alike(h1, h2) ==
    /\ kind[h1] = kind[h2] /\ kind[h1] \in {"player", "compare"}
    /\ arg[h1] = arg[h2]
    /\ pc[h1] = "done" /\ pc[h2] = "done"
    /\ \A i \in 1..2 : Norm(task[h1][i].res) = Norm(task[h2][i].res)

\* C4 as claimed: in both handlers a lookup that raises gets the same response
\* and the same changes of scraping_successes and scraping_failures as one
\* that returns None.
C4_AsClaimed ==
    \A h1 \in Handlers : \A h2 \in Handlers :
        (Alike(h1, h2) /\ OkPattern(h1) = OkPattern(h2)) =>
            /\ sends[h1] = sends[h2]
            /\ dS[h1] = dS[h2] /\ dF[h1] = dF[h2]

\* C4, amended: in /compare a lookup that raises is turned into None, so the
\* response and the changes of scraping_successes and scraping_failures are
\* those of a lookup that returned None; in /player it is caught by the except
\* clause, which answers with the 'Error' embed instead of 'Player Not Found'
\* and changes the two counters as a None result does once the handler returns.
C4_RaiseDegradesToNull ==
    /\ \A h1 \in Handlers : \A h2 \in Handlers :
         Alike(h1, h2) =>
            /\ (kind[h1] = "player" /\ ~IsRecord(task[h1][1].res)) =>
                 (dS[h1] = dS[h2] /\ dF[h1] = dF[h2])
            /\ (kind[h1] = "compare" /\ OkPattern(h1) = OkPattern(h2)) =>
                 /\ sends[h1] = sends[h2]
                 /\ dS[h1] = dS[h2] /\ dF[h1] = dF[h2]
    /\ \A h \in Handlers :
         (kind[h] = "compare" /\ Past(h) /\ ~NoLookup(h)) =>
            \A i \in 1..2 : task[h][i].res.tag = "raise" => data[h][i] = NoneRes
    /\ \A h \in Handlers :
         (kind[h] = "player" /\ Past(h) /\ task[h][1].res.tag = "raise") =>
            /\ handling[h] /\ raised[h] = "lookup"
            /\ FirstReply(h) = ErrorMsg
            /\ dS[h] = 0
            /\ pc[h] = "done" => dF[h] = 1
    /\ \A h \in Handlers : esc[h] \in {"none", "defer", "send"}

C4_Witness ==
    \E h1 \in Handlers : \E h2 \in Handlers :
        /\ Alike(h1, h2) /\ kind[h1] = "compare"
        /\ task[h1][1].res.tag = "raise" /\ task[h2][1].res = NoneRes
        /\ IsRecord(task[h1][2].res)
        /\ sends[h1] = sends[h2] /\ Len(sends[h1]) = 1 /\ sends[h1][1].ok
        /\ dF[h1] = 1 /\ dF[h2] = 1

Lookups == {t \in Handlers \X {1, 2} : task[t[1]][t[2]].st # "none"}

LookupKey(t) == Lower(Strip(arg[t[1]][t[2]]))

\* C5: lookups of one case-folded username that are in flight together share
\* one outbound fetch: no username has two fetches in flight, and every lookup
\* that waited for a fetch ends with that fetch's result.
C5_OneFetchPerUsername ==
    /\ \A f \in 1..Len(fetches) : \A g \in 1..Len(fetches) :
         (fetches[f].st = "inflight" /\ fetches[g].st = "inflight"
          /\ fetches[f].key = fetches[g].key) => f = g
    /\ \A t \in Lookups : \A u \in Lookups :
         (task[t[1]][t[2]].st = "waiting" /\ task[u[1]][u[2]].st = "waiting"
          /\ LookupKey(t) = LookupKey(u)) =>
            task[t[1]][t[2]].fetch = task[u[1]][u[2]].fetch
    /\ \A t \in Lookups :
         LET k == task[t[1]][t[2]]
         IN  k.fetch # 0 =>
               /\ fetches[k.fetch].key = LookupKey(t)
               /\ k.st = "done" => (fetches[k.fetch].st = "done" /\ k.res = fetches[k.fetch].res)
               /\ k.st = "waiting" => fetches[k.fetch].st = "inflight"

C5_Witness ==
    /\ Cardinality({f \in 1..Len(fetches) : fetches[f].key = <<"a">>}) = 1
    /\ kind[1] = "player" /\ kind[2] = "compare"
    /\ arg[1][1] # arg[2][1]
    /\ LookupKey(<<1, 1>>) = LookupKey(<<2, 1>>)
    /\ task[1][1].st = "done" /\ task[2][1].st = "done"
    /\ task[1][1].fetch = 1 /\ task[2][1].fetch = 1
    /\ IsRecord(task[1][1].res) /\ task[1][1].res = task[2][1].res


\* C6: close() calls the scraper's close exactly once, that call has returned
\* (the connection resource is released) before super().close() begins, and
\* the shutdown then completes; this holds whatever the handlers are doing,
\* also when no lookup was ever made.
C6_ScraperClosedBeforeSuper ==
    /\ [](scraperCloseCalls <= 1)
    /\ [](closePc = "scraper_closing" => scraperCloseCalls = 1)
    /\ [](closePc \in {"super_closing", "closed"} =>
            (scraperCloseCalls = 1 /\ ~scraperOpen))
    /\ ((closePc # "open") ~> (closePc = "closed"))

C6_Witness ==
    /\ closePc = "closed"
    /\ scraperCloseCalls = 1 /\ ~scraperOpen
    /\ fetches = <<>>
    /\ \A h \in Handlers : pc[h] = "idle"

\* C7: _check_website_status always returns, and returns 'Online' exactly for
\* a response with status 200, 'Partial' exactly for a response with any other
\* status, and 'Offline' exactly when the request raised (timeout, connection
\* failure); botstats_command_handler puts that value in its embed.
C7_WebsiteStatus ==
    \A h \in Handlers :
        web[h].st = "returned" =>
            LET o == web[h].out
                r == web[h].result
            IN  /\ r.tag = "return"
                /\ esc[h] # "web"
                /\ r.light \in {"Online", "Partial", "Offline"}
                /\ r.light = "Online" <=> (o.tag = "response" /\ o.status = 200)
                /\ r.light = "Partial" <=> (o.tag = "response" /\ o.status # 200)
                /\ r.light = "Offline" <=> o.tag = "exception"
                /\ Reached(h) /\ FirstReply(h) = Msg("BotStats", {}, r)

C7_Witness ==
    \E h \in Handlers :
        /\ kind[h] = "botstats" /\ pc[h] = "done"
        /\ web[h].out.tag = "response" /\ web[h].out.status = 204
        /\ web[h].result.light = "Partial"
        /\ sends[h][1].ok

\* The number a kd_ratio display string stands for, in hundredths.
Hundredths(k) ==
    CASE k = Kd000  -> 0
      [] k = Kd20   -> 200
      [] k = Kd200  -> 200
      [] k = Kd950  -> 950
      [] k = Kd1000 -> 1000

Judged(f, v1, v2, n1, n2) ==
    /\ v1 > v2 => (f.result = "Win" /\ f.winner = n1 /\ f.loser = n2)
    /\ v2 > v1 => (f.result = "Win" /\ f.winner = n2 /\ f.loser = n1)
    /\ f.result = "Tie" <=> v1 = v2

\* C8: in the comparison embed each of experience, K/D ratio and gold boxes
\* names as winner the player with the strictly greater number and is a tie
\* exactly when the numbers are equal; K/D is compared by its numeric value,
\* not by its text; with the two arguments swapped every metric names the same
\* winner.
C8_WinnerByNumber ==
    probe.out # Unset =>
        LET r1 == probe.d1.rec
            r2 == probe.d2.rec
            n1 == r1["username"]
            n2 == r2["username"]
            o  == probe.out
            w  == probe.swapped
        IN  /\ o.tag = "embed" /\ w.tag = "embed"
            /\ Judged(o.exp, Get(r1, "experience", 0), Get(r2, "experience", 0), n1, n2)
            /\ Judged(o.kd, Hundredths(r1["kd_ratio"]), Hundredths(r2["kd_ratio"]), n1, n2)
            /\ Judged(o.gold, Get(r1, "gold_boxes", 0), Get(r2, "gold_boxes", 0), n1, n2)
            /\ o.exp = w.exp /\ o.kd = w.kd /\ o.gold = w.gold

C8_Witness ==
    /\ probe.out # Unset
    /\ probe.d1.rec["kd_ratio"] = Kd1000 /\ probe.d2.rec["kd_ratio"] = Kd950
    /\ probe.d1.rec["username"] # probe.d2.rec["username"]
    /\ probe.out.kd.result = "Win"
    /\ probe.out.kd.winner = probe.d1.rec["username"]
    /\ probe.swapped.kd.winner = probe.d1.rec["username"]
    /\ probe.out.exp.result = "Tie"

Replying(h) == kind[h] \in {"player", "compare"}

Ended(h) == pc[h] \in {"done", "escaped"}

\* The followup.send of the except clause raised.
ExceptSendFailed(h) ==
    /\ handling[h]
    /\ sends[h] # <<>> /\ ~sends[h][Len(sends[h])].ok
    /\ sends[h][Len(sends[h])].msg = ErrorMsg

\* C9: a /player or /compare invocation whose interaction was deferred ends,
\* and unless the followup send of its except clause failed it ends with
\* exactly one followup message delivered; none is ever answered twice.
C9_ExactlyOneReply ==
    \A h \in Handlers :
        /\ []((Replying(h) /\ Deferred(h)) => <>Ended(h))
        /\ [](Replying(h) => Cardinality(Delivered(h)) <= 1)
        /\ []((Replying(h) /\ Deferred(h) /\ Ended(h) /\ ~ExceptSendFailed(h))
                => Cardinality(Delivered(h)) = 1)
        /\ []((Replying(h) /\ pc[h] = "escaped" /\ Deferred(h)) => ExceptSendFailed(h))

C9_Witness ==
    \E h \in Handlers :
        /\ kind[h] = "player" /\ pc[h] = "done"
        /\ Len(sends[h]) = 2
        /\ sends[h][1].msg.kind = "PlayerEmbed" /\ ~sends[h][1].ok
        /\ sends[h][2].msg = ErrorMsg /\ sends[h][2].ok
        /\ raised[h] = "send"

Players == {h \in Handlers : kind[h] = "player"}

EmbedDelivered(h) ==
    \E i \in Delivered(h) : sends[h][i].msg.kind = "PlayerEmbed"

\* C10: when only /player invocations have run, in any interleaving,
\* scraping_successes + scraping_failures counts the invocations that have
\* returned, scraping_successes counts those whose player embed was
\* delivered, and total_scraping_time is the sum of what exactly those added.
C10_CountersExact ==
    (\A h \in Handlers : kind[h] \in {"none", "player"}) =>
        /\ scraping_successes + scraping_failures =
             Cardinality({h \in Players : pc[h] = "done"})
        /\ scraping_successes = Cardinality({h \in Players : EmbedDelivered(h)})
        /\ total_scraping_time = dT[1] + dT[2]
        /\ \A h \in Players : dT[h] > 0 <=> EmbedDelivered(h)

C10_Witness ==
    /\ kind[1] = "player" /\ kind[2] = "player"
    /\ pc[1] = "done" /\ pc[2] = "done"
    /\ EmbedDelivered(2) /\ ~EmbedDelivered(1)
    /\ Len(sends[1]) = 2
    /\ scraping_successes = 1 /\ scraping_failures = 1
    /\ total_scraping_time = dT[2] /\ dT[2] > 0

Compares == {h \in Handlers : kind[h] = "compare"}

\* Both lookups of a /compare have finished and the handler has gone past
\* the gather of line 140.
Looked(h) ==
    /\ Past(h)
    /\ task[h][1].st = "done" /\ task[h][2].st = "done"

\* C11: a /compare in which exactly one lookup yielded no record (None or an
\* exception) and the other a record leaves scraping_successes and
\* total_scraping_time as they were and has added exactly 1 to
\* scraping_failures when it returns, so the lookup that succeeded is counted
\* nowhere.  A /compare adds 2 to a counter only when its lookups agree: to
\* scraping_successes only when both yielded a record, to scraping_failures
\* only when both yielded none.
C11_OneMissingCountsOneFailure ==
    /\ \A h \in Compares :
         (Looked(h) /\ Cardinality(Missing(h)) = 1) =>
            /\ dS[h] = 0
            /\ dT[h] = 0
            /\ dF[h] <= 1
            /\ pc[h] = "done" => dF[h] = 1
            /\ dF[h] = 1 => pc[h] = "done"
    /\ \A h \in Compares :
         /\ dS[h] \in {0, 2}
         /\ dF[h] \in {0, 1, 2}
         /\ dS[h] = 2 => Looked(h) /\ Missing(h) = {} /\ dF[h] = 0
         /\ dF[h] = 2 => Looked(h) /\ Missing(h) = {1, 2} /\ dS[h] = 0
         /\ dT[h] > 0 <=> dS[h] = 2
    /\ scraping_successes = dS[1] + dS[2]
    /\ scraping_failures = dF[1] + dF[2]
    /\ total_scraping_time = dT[1] + dT[2]

C11_Witness ==
    /\ kind[1] = "compare" /\ kind[2] = "compare"
    /\ pc[1] = "done" /\ pc[2] = "done"
    /\ IsRecord(task[1][1].res) /\ task[1][2].res = RaiseRes
    /\ Len(sends[1]) = 1 /\ sends[1][1].ok
    /\ sends[1][1].msg.kind = "PlayerNotFound"
    /\ Missing(2) = {}
    /\ sends[2][1].msg.kind = "ComparisonEmbed" /\ sends[2][1].ok
    /\ scraping_successes = 2 /\ scraping_failures = 1
    /\ total_scraping_time = dT[2]

=============================================================================
